---------------------------- MODULE Spec2Model ----------------------------
(***************************************************************************)
(* update_tag.py: keeps a fork's checkout on top of the latest upstream    *)
(* release and records it with a patch tag <version>-p<N>.                 *)
(*                                                                         *)
(* The state is the git repository the script drives (commit graph, local  *)
(* tags, HEAD, the remote and its tracking branch), the upstream           *)
(* repository it fetches from, and the position and locals of one run of   *)
(* sync_and_patch.  Every git command of the script is one step.           *)
(*                                                                         *)
(* Tag names are sequences of one-character strings, so that the prefix    *)
(* test, the glob patterns and the regular expression of the script are    *)
(* computed on characters as the script computes them.                     *)
(***************************************************************************)
EXTENDS Naturals, Sequences, FiniteSets, TLC

\* ------------------------------------------------------------------ bounds
\* Commits that may ever exist (local, upstream and rebased copies together).
MaxCommit == 3
\* Longest tag name a run may have to form (a patch tag of a patch tag is
\* possible, and so on without end).
MaxNameLen == 9

\* ------------------------------------------------------------- characters
Digits == {"0", "1", "2", "3", "4", "5", "6", "7", "8", "9"}

DigitVal(ch) ==
    CASE ch = "0" -> 0 [] ch = "1" -> 1 [] ch = "2" -> 2 [] ch = "3" -> 3
      [] ch = "4" -> 4 [] ch = "5" -> 5 [] ch = "6" -> 6 [] ch = "7" -> 7
      [] ch = "8" -> 8 [] ch = "9" -> 9

DigitChar(d) ==
    CASE d = 0 -> "0" [] d = 1 -> "1" [] d = 2 -> "2" [] d = 3 -> "3"
      [] d = 4 -> "4" [] d = 5 -> "5" [] d = 6 -> "6" [] d = 7 -> "7"
      [] d = 8 -> "8" [] d = 9 -> "9"

\* Byte order of the characters used in tag names (git lists refs by name).
CharCode(ch) ==
    CASE ch = "*" -> 42 [] ch = "-" -> 45 [] ch \in Digits -> 48 + DigitVal(ch)
      [] ch = "e" -> 101 [] ch = "p" -> 112 [] ch = "r" -> 114 [] ch = "v" -> 118

RECURSIVE LexLess(_, _)
LexLess(a, b) ==
    IF a = <<>> THEN b # <<>>
    ELSE IF b = <<>> THEN FALSE
    ELSE IF Head(a) = Head(b) THEN LexLess(Tail(a), Tail(b))
    ELSE CharCode(Head(a)) < CharCode(Head(b))

\* str.startswith
StartsWith(s, prefix) ==
    /\ Len(prefix) <= Len(s)
    /\ SubSeq(s, 1, Len(prefix)) = prefix

\* The glob of `git tag --list <pattern>`: "*" matches any run of characters.
RECURSIVE WildMatch(_, _)
WildMatch(pat, s) ==
    IF pat = <<>> THEN s = <<>>
    ELSE IF Head(pat) = "*"
         THEN \/ WildMatch(Tail(pat), s)
              \/ (s # <<>> /\ WildMatch(pat, Tail(s)))
    ELSE /\ s # <<>>
         /\ Head(s) = Head(pat)
         /\ WildMatch(Tail(pat), Tail(s))

\* int(): decimal value of a run of digits.
RECURSIVE ParseInt(_)
ParseInt(ds) ==
    IF ds = <<>> THEN 0
    ELSE 10 * ParseInt(SubSeq(ds, 1, Len(ds) - 1)) + DigitVal(ds[Len(ds)])

\* str(int) inside an f-string: decimal digits, no leading zero.
RECURSIVE IntToStr(_)
IntToStr(n) ==
    IF n < 10 THEN <<DigitChar(n)>>
    ELSE IntToStr(n \div 10) \o <<DigitChar(n % 10)>>

\* Length of the longest run of digits ending the name.
RECURSIVE TrailingDigits(_)
TrailingDigits(s) ==
    IF s = <<>> \/ s[Len(s)] \notin Digits THEN 0
    ELSE 1 + TrailingDigits(SubSeq(s, 1, Len(s) - 1))

\* re.search(r'-p(\d+)$', tag) finds a match: the name ends in "-p" and digits.
HasPatchSuffix(tag) ==
    LET k == TrailingDigits(tag)
        n == Len(tag)
    IN  k >= 1 /\ n >= k + 2 /\ tag[n - k - 1] = "-" /\ tag[n - k] = "p"

\* int(match.group(1)) of that match.
PatchSuffix(tag) ==
    LET k == TrailingDigits(tag)
        n == Len(tag)
    IN  ParseInt(SubSeq(tag, n - k + 1, n))

\* f'{latest_tag}-p'
PatchPrefix(base) == base \o <<"-", "p">>

\* The new name built without the '-p' infix.
PatchTagNameNoInfix(base, n) == base \o IntToStr(n)

\* f'{latest_tag}-p{n}'
PatchTagName(base, n) == PatchPrefix(base) \o IntToStr(n)

\* The pattern of the bulk removal without its trailing star.
AllPatchPatternNoStar == <<"*", "-", "p">>

\* '*-p*', the pattern of the bulk removal.
AllPatchPattern == <<"*", "-", "p", "*">>

\* f'{base_tag}-p*'
BasePatchPattern(base) == PatchPrefix(base) \o <<"*">>

SetMax(S) == IF S = {} THEN 0 ELSE CHOOSE m \in S : \A x \in S : x <= m

\* get_highest_patch_suffix over the names of the local tags.
GetHighestPatchSuffix(names, base_tag) ==
    LET listed == {t \in names : WildMatch(BasePatchPattern(base_tag), t)}
    IN  SetMax({0} \cup {PatchSuffix(t) : t \in {u \in listed : HasPatchSuffix(u)}})

\* ------------------------------------------------------------------ names
UPSTREAM_REMOTE_URL == "https://github.com/asottile/reorder-python-imports.git"
OtherUrl == "https://example.org/mirror.git"
NoRemote == "absent"

\* Names upstream gives its releases.
V1    == <<"v", "1">>
V1Pre == <<"v", "1", "-", "p", "r", "e">>
V2    == <<"v", "2">>
\* In the order upstream releases them.
ReleaseOrder == <<V1Pre, V1, V2>>
UpstreamNames == {ReleaseOrder[i] : i \in DOMAIN ReleaseOrder}

NoTag == <<>>


\* ------------------------------------------------------------------ state
VARIABLES
    parent,           \* commit graph: parent[c] is the parent of commit c, 0 for a root
    upMain,           \* upstream repository: tip of its main branch
    upTags,           \* upstream repository: release tag name -> commit
    annotated,        \* upstream's habit: its release tags are annotated tags
    remoteUrl,        \* URL of the remote named UPSTREAM_REMOTE_NAME, or NoRemote
    baseMain,         \* remote-tracking branch base/main, 0 before the first fetch
    tags,             \* local tags: name -> commit
    HEAD,             \* checked-out commit, 0 for an unborn HEAD
    pc,               \* position of the run in sync_and_patch
    latest_tag,       \* locals of sync_and_patch
    latest_tag_hash,
    new_tag,
    branch,           \* "none", "ancestor" or "rebase": the arm of line 155 taken
    todo,             \* remove_tags: tags listed and not yet deleted
    status,           \* exit status of the run, "running" until it ends
    outcome,          \* what the run reported last
    cmdFailed,        \* a command run without may_fail exited non-zero in this run
    tolerated,        \* a command run with may_fail exited non-zero in this run
    start_tags,       \* tags and HEAD as the run found them
    start_head,
    recording,        \* whether the two history variables below are kept
    prev,             \* <<exit status>> of the run that ended just before, <<>>
                      \* once the user or upstream acted since
    created           \* <<version, tag>> of the patch tag created last, <<>> if none

repoVars  == <<parent, upMain, upTags, annotated, remoteUrl, baseMain, tags, HEAD>>
localVars == <<latest_tag, latest_tag_hash, new_tag, branch, todo>>
exitVars  == <<status, outcome>>
histVars  == <<start_tags, start_head, recording, prev, created>>
vars == <<parent, upMain, upTags, annotated, remoteUrl, baseMain, tags, HEAD, pc,
          latest_tag, latest_tag_hash, new_tag, branch, todo, status, outcome,
          cmdFailed, tolerated, start_tags, start_head, recording, prev, created>>

NoTags == [t \in {} |-> 0]

Commits == 1..Len(parent)

\* Commits reachable from c, c included.
RECURSIVE AncEq(_)
AncEq(c) == IF c = 0 THEN {} ELSE {c} \cup AncEq(parent[c])

TagsAtIn(tg, c) == {t \in DOMAIN tg : tg[t] = c}
TagsAt(c) == TagsAtIn(tags, c)

\* Commits the local repository has a name for.
Refs == {baseMain} \cup {tags[t] : t \in DOMAIN tags}

InitRepo ==
    /\ parent = <<0>>
    /\ upMain = 1
    /\ upTags = NoTags
    /\ annotated \in BOOLEAN
    /\ remoteUrl \in {NoRemote, OtherUrl}
    /\ baseMain = 0
    /\ tags = NoTags
    /\ HEAD \in {0, 1}
    /\ pc = "idle"
    /\ latest_tag = NoTag
    /\ latest_tag_hash = 0
    /\ new_tag = NoTag
    /\ branch = "none"
    /\ todo = {}
    /\ status = "running"
    /\ outcome = "none"
    /\ cmdFailed = FALSE
    /\ tolerated = FALSE
    /\ start_tags = NoTags
    /\ start_head = 0
    /\ prev = <<>>
    /\ created = <<>>

Init     == InitRepo /\ recording = FALSE
InitHist == InitRepo /\ recording = TRUE

\* ----------------------------------------------- the user and the upstream
\* They act between runs: the script assumes exclusive access while it runs,
\* and upstream is seen only through the fetches.
EnvFrame ==
    /\ prev' = <<>>
    /\ UNCHANGED <<pc, localVars, exitVars, cmdFailed, tolerated,
                   start_tags, start_head, recording, created>>

\* git commit
LocalCommit ==
    /\ pc = "idle"
    /\ Len(parent) < MaxCommit
    /\ parent' = Append(parent, HEAD)
    /\ HEAD' = Len(parent) + 1
    /\ UNCHANGED <<upMain, upTags, annotated, remoteUrl, baseMain, tags>>
    /\ EnvFrame

\* git checkout <tag> or git checkout base/main
Checkout ==
    /\ pc = "idle"
    /\ \E c \in Refs \ {HEAD, 0} : HEAD' = c
    /\ UNCHANGED <<parent, upMain, upTags, annotated, remoteUrl, baseMain, tags>>
    /\ EnvFrame

\* Upstream pushes a commit to its main branch.
UpstreamCommit ==
    /\ pc = "idle"
    /\ Len(parent) < MaxCommit
    /\ parent' = Append(parent, upMain)
    /\ upMain' = Len(parent) + 1
    /\ UNCHANGED <<upTags, annotated, remoteUrl, baseMain, tags, HEAD>>
    /\ EnvFrame

\* Upstream tags the tip of its main branch as a release, later in
\* ReleaseOrder than the releases it has made.
UpstreamRelease ==
    /\ pc = "idle"
    /\ \E i \in DOMAIN ReleaseOrder :
        /\ \A j \in i..Len(ReleaseOrder) : ReleaseOrder[j] \notin DOMAIN upTags
        /\ upTags' = (ReleaseOrder[i] :> upMain) @@ upTags
    /\ UNCHANGED <<parent, upMain, annotated, remoteUrl, baseMain, tags, HEAD>>
    /\ EnvFrame


\* ------------------------------------------------------------ command runner
\* run_git forgetting may_fail: every failure is fatal.
RunGitStrict(ok, may_fail) == IF ok THEN "stdout" ELSE "exit"

\* run_git returning None on every failure.
RunGitTolerant(ok, may_fail) == IF ok THEN "stdout" ELSE "None"

\* run_git: what the caller gets for a command that exited zero (ok) or not.
RunGit(ok, may_fail) ==
    IF ok THEN "stdout"
    ELSE IF may_fail THEN "None"
    ELSE "exit"

Exit(code, what) == pc' = "done" /\ status' = code /\ outcome' = what
Goto(label)      == pc' = label /\ UNCHANGED exitVars

\* run_git exiting with status 0 after printing the error.
DieStatusZero == Exit(0, "git_error")

\* sys.exit(1) of run_git, after printing the captured error stream.
Die == Exit(1, "git_error")

\* --------------------------------------------------------------- git itself
\* The smallest name of a set of tag names, in the order git lists refs.
FirstName(S) == CHOOSE t \in S : \A u \in S \ {t} : LexLess(t, u)

\* What a fetch from upstream leaves: the tracking branch at upstream's tip
\* and every upstream tag not yet known locally (an existing tag is kept).
FetchMerge(tg, up) ==
    [n \in DOMAIN tg \cup DOMAIN up |-> IF n \in DOMAIN tg THEN tg[n] ELSE up[n]]

FetchedTags == FetchMerge(tags, upTags)

\* Nearest commit carrying a tag of tg on the way back from c, 0 if there is none.
RECURSIVE NearestTagged(_, _)
NearestTagged(tg, c) ==
    IF c = 0 THEN 0
    ELSE IF TagsAtIn(tg, c) # {} THEN c
    ELSE NearestTagged(tg, parent[c])

\* The release of S made last.
NewestRelease(S) ==
    ReleaseOrder[CHOOSE i \in DOMAIN ReleaseOrder :
        /\ ReleaseOrder[i] \in S
        /\ \A j \in (i + 1)..Len(ReleaseOrder) : ReleaseOrder[j] \notin S]

\* `git describe --tags --abbrev=0` when several tags sit on the nearest
\* commit: an annotated tag wins over the lightweight ones (the script's own
\* tags are lightweight), the newest of several annotated tags wins, and
\* among lightweight tags the first by name wins.
DescribeName(tg, c) ==
    LET releases == {t \in TagsAtIn(tg, c) : t \in DOMAIN upTags /\ upTags[t] = c}
    IN  IF annotated /\ releases # {} THEN NewestRelease(releases)
        ELSE FirstName(TagsAtIn(tg, c))

\* The name a run started now resolves as the latest upstream tag.
DescribeAfterFetch ==
    LET c == NearestTagged(FetchedTags, upMain)
    IN  IF c = 0 THEN {} ELSE {DescribeName(FetchedTags, c)}

\* Commits `git rebase --onto <onto> base/main` replays: those of HEAD that
\* base/main does not reach.
RebaseRange == AncEq(HEAD) \ AncEq(baseMain)

\* The commit graph after n commits were replayed on top of onto.
Replayed(onto, n) ==
    parent \o [i \in 1..n |-> IF i = 1 THEN onto ELSE Len(parent) + i - 1]

ReplayedHead(onto, n) == IF n = 0 THEN onto ELSE Len(parent) + n

\* ------------------------------------------------------- sync_and_patch
\* The else branch left in comments (lines 54-61): set-url on an existing remote.
RemoteAfterSetupSetUrl(url) == UPSTREAM_REMOTE_URL

\* The URL of the remote 'base' after setup_remote_if_missing: added when
\* `git remote` does not list it, left alone otherwise.
RemoteAfterSetup(url) == IF url = NoRemote THEN UPSTREAM_REMOTE_URL ELSE url

\* setup_remote_if_missing, the first statement of a run.
SetupRemoteIfMissing ==
    /\ pc = "idle"
    /\ Len(parent) + Cardinality(AncEq(HEAD) \ AncEq(upMain)) <= MaxCommit
    /\ \A t \in DescribeAfterFetch : Len(PatchTagName(t, 1)) <= MaxNameLen
    /\ remoteUrl' = RemoteAfterSetup(remoteUrl)
    /\ pc' = "fetch"
    /\ status' = "running"
    /\ outcome' = "none"
    /\ cmdFailed' = FALSE
    /\ tolerated' = FALSE
    /\ start_tags' = tags
    /\ start_head' = HEAD
    /\ UNCHANGED <<parent, upMain, upTags, annotated, baseMain, tags, HEAD, localVars, recording, prev, created>>

\* run_git(['fetch', UPSTREAM_REMOTE_NAME]); the network may fail it.
Fetch ==
    /\ pc = "fetch"
    /\ \E ok \in BOOLEAN :
        LET r == RunGit(ok, FALSE) IN
        /\ cmdFailed' = (cmdFailed \/ ~ok)
        /\ IF r = "exit" THEN Die ELSE Goto("fetch_tags")
        /\ IF ok
           THEN baseMain' = upMain /\ tags' = FetchedTags
           ELSE UNCHANGED <<baseMain, tags>>
    /\ UNCHANGED <<parent, upMain, upTags, annotated, remoteUrl, HEAD, localVars, tolerated, histVars>>

\* get_latest_upstream_tag, first command: fetch with --tags.
FetchTags ==
    /\ pc = "fetch_tags"
    /\ \E ok \in BOOLEAN :
        LET r == RunGit(ok, FALSE) IN
        /\ cmdFailed' = (cmdFailed \/ ~ok)
        /\ IF r = "exit" THEN Die ELSE Goto("describe")
        /\ IF ok
           THEN baseMain' = upMain /\ tags' = FetchedTags
           ELSE UNCHANGED <<baseMain, tags>>
    /\ UNCHANGED <<parent, upMain, upTags, annotated, remoteUrl, HEAD, localVars, tolerated, histVars>>

\* get_latest_upstream_tag, second command: describe base/main.
Describe ==
    /\ pc = "describe"
    /\ LET c  == NearestTagged(tags, baseMain)
           ok == c # 0
           r  == RunGit(ok, FALSE)
       IN  /\ cmdFailed' = (cmdFailed \/ ~ok)
           /\ IF r = "exit" THEN Die /\ UNCHANGED latest_tag
              ELSE /\ Goto("rev_list")
                   /\ IF ok
                      THEN latest_tag' = DescribeName(tags, c)
                      ELSE latest_tag' = NoTag
    /\ UNCHANGED <<repoVars, latest_tag_hash, new_tag, branch, todo, tolerated, histVars>>

\* get_tag_commit_hash(latest_tag)
GetTagCommitHash ==
    /\ pc = "rev_list"
    /\ LET ok == latest_tag \in DOMAIN tags
           r  == RunGit(ok, FALSE)
       IN  /\ cmdFailed' = (cmdFailed \/ ~ok)
           /\ IF r = "exit" THEN Die ELSE Goto("head_tags")
           /\ latest_tag_hash' = IF ok THEN tags[latest_tag] ELSE 0
    /\ UNCHANGED <<repoVars, latest_tag, new_tag, branch, todo, tolerated, histVars>>

\* The loop comparing with == instead of startswith.
AlreadyTaggedEqual(head_tags, latest) ==
    \E t \in head_tags : t = PatchPrefix(latest)

\* for tag in head_tags: if tag.startswith(f"{latest_tag}-p")
AlreadyTagged(head_tags, latest) ==
    \E t \in head_tags : StartsWith(t, PatchPrefix(latest))

\* get_head_tags and the loop over its result; an unborn HEAD fails the command.
GetHeadTags ==
    /\ pc = "head_tags"
    /\ LET ok == HEAD # 0
           r  == RunGit(ok, TRUE)
           head_tags == IF r = "stdout" THEN TagsAt(HEAD) ELSE {}
       IN  /\ tolerated' = (tolerated \/ ~ok)
           /\ IF r = "exit" THEN Die
              ELSE IF AlreadyTagged(head_tags, latest_tag) THEN Exit(0, "up_to_date")
              ELSE Goto("rev_parse")
    /\ UNCHANGED <<repoVars, localVars, cmdFailed, histVars>>

\* The comparison of line 151 left out.
HeadIsLatestNever(head_hash, hash) == FALSE

\* head_hash == latest_tag_hash
HeadIsLatest(head_hash, hash) == head_hash = hash

\* get_head_hash and the comparison with latest_tag_hash.
GetHeadHash ==
    /\ pc = "rev_parse"
    /\ LET ok == HEAD # 0
           r  == RunGit(ok, FALSE)
           head_hash == IF r = "stdout" THEN HEAD ELSE 0
       IN  /\ cmdFailed' = (cmdFailed \/ ~ok)
           /\ IF r = "exit" THEN Die
              ELSE IF HeadIsLatest(head_hash, latest_tag_hash) THEN Exit(1, "no_local_patches")
              ELSE Goto("is_ancestor")
    /\ UNCHANGED <<repoVars, localVars, tolerated, histVars>>

\* return result is not None
IsAncestorResult(r) == r # "None"

\* is_ancestor_of_head(latest_tag_hash): merge-base --is-ancestor exits
\* non-zero when the commit is not an ancestor of HEAD.
IsAncestorOfHead ==
    /\ pc = "is_ancestor"
    /\ LET ok == latest_tag_hash \in AncEq(HEAD)
           r  == RunGit(ok, TRUE)
       IN  /\ tolerated' = (tolerated \/ ~ok)
           /\ IF r = "exit" THEN Die /\ UNCHANGED branch
              ELSE IF IsAncestorResult(r)
                   THEN Goto("highest") /\ branch' = "ancestor"
                   ELSE Goto("remove_list") /\ branch' = "rebase"
    /\ UNCHANGED <<repoVars, latest_tag, latest_tag_hash, new_tag, todo, cmdFailed, histVars>>

\* last_patch = get_highest_patch_suffix(latest_tag); new_tag = ...-p{last_patch + 1}
NextPatchTag ==
    /\ pc = "highest"
    /\ new_tag' = PatchTagName(latest_tag, GetHighestPatchSuffix(DOMAIN tags, latest_tag) + 1)
    /\ Goto("tag_head")
    /\ UNCHANGED <<repoVars, latest_tag, latest_tag_hash, branch, todo,
                   cmdFailed, tolerated, histVars>>

\* remove_tags('*-p*'): the listing.
ListTags ==
    /\ pc = "remove_list"
    /\ LET listed == {t \in DOMAIN tags : WildMatch(AllPatchPattern, t)}
       IN  /\ todo' = listed
           /\ Goto(IF listed = {} THEN "rebase" ELSE "remove_one")
    /\ UNCHANGED <<repoVars, latest_tag, latest_tag_hash, new_tag, branch,
                   cmdFailed, tolerated, histVars>>

\* remove_tags('*-p*'): one `git tag -d` of the loop.
DeleteTag ==
    /\ pc = "remove_one"
    /\ LET t  == FirstName(todo)
           ok == t \in DOMAIN tags
           r  == RunGit(ok, FALSE)
       IN  /\ cmdFailed' = (cmdFailed \/ ~ok)
           /\ todo' = todo \ {t}
           /\ tags' = [n \in DOMAIN tags \ {t} |-> tags[n]]
           /\ IF r = "exit" THEN Die
              ELSE Goto(IF todo \ {t} = {} THEN "rebase" ELSE "remove_one")
    /\ UNCHANGED <<parent, upMain, upTags, annotated, remoteUrl, baseMain, HEAD,
                   latest_tag, latest_tag_hash, new_tag, branch, tolerated, histVars>>

\* git rebase --onto latest_tag_hash base/main.  It may refuse to start
\* (how = "refused"), stop on a conflict after replaying n commits
\* (how = "conflict"), or replay them all.
Rebase ==
    /\ pc = "rebase"
    /\ LET k == Cardinality(RebaseRange) IN
       \E how \in {"done", "refused", "conflict"}, n \in 0..k :
        LET ok == how = "done"
            r  == RunGit(ok, FALSE)
        IN  /\ HEAD # 0
            /\ how = "done" => n = k
            /\ how = "refused" => n = 0
            /\ how = "conflict" => n < k
            /\ Len(parent) + n <= MaxCommit
            /\ cmdFailed' = (cmdFailed \/ ~ok)
            /\ IF how = "refused"
               THEN UNCHANGED <<parent, HEAD>>
               ELSE /\ parent' = Replayed(latest_tag_hash, n)
                    /\ HEAD' = ReplayedHead(latest_tag_hash, n)
            /\ IF r = "exit" THEN Die /\ UNCHANGED new_tag
               ELSE Goto("tag_head") /\ new_tag' = PatchTagName(latest_tag, 1)
    /\ UNCHANGED <<upMain, upTags, annotated, remoteUrl, baseMain, tags,
                   latest_tag, latest_tag_hash, branch, todo, tolerated, histVars>>

\* tag_head(new_tag) and the report; git refuses a name that exists.
TagHead ==
    /\ pc = "tag_head"
    /\ LET ok == new_tag \notin DOMAIN tags /\ HEAD # 0
           r  == RunGit(ok, FALSE)
       IN  /\ cmdFailed' = (cmdFailed \/ ~ok)
           /\ IF ok
              THEN /\ tags' = (new_tag :> HEAD) @@ tags
                   /\ created' = IF recording THEN <<latest_tag, new_tag>> ELSE created
              ELSE UNCHANGED <<tags, created>>
           /\ IF r = "exit" THEN Die ELSE Exit(0, "updated")
    /\ UNCHANGED <<parent, upMain, upTags, annotated, remoteUrl, baseMain, HEAD,
                   localVars, tolerated, start_tags, start_head, recording, prev>>

\* The process has exited; its locals are gone.
Finish ==
    /\ pc = "done"
    /\ pc' = "idle"
    /\ prev' = IF recording THEN <<status>> ELSE prev
    /\ latest_tag' = NoTag
    /\ latest_tag_hash' = 0
    /\ new_tag' = NoTag
    /\ branch' = "none"
    /\ todo' = {}
    /\ status' = "running"
    /\ outcome' = "none"
    /\ cmdFailed' = FALSE
    /\ tolerated' = FALSE
    /\ start_tags' = NoTags
    /\ start_head' = 0
    /\ UNCHANGED <<repoVars, recording, created>>

Next ==
    \/ LocalCommit
    \/ Checkout
    \/ UpstreamCommit
    \/ UpstreamRelease
    \/ SetupRemoteIfMissing
    \/ Fetch
    \/ FetchTags
    \/ Describe
    \/ GetTagCommitHash
    \/ GetHeadTags
    \/ GetHeadHash
    \/ IsAncestorOfHead
    \/ NextPatchTag
    \/ ListTags
    \/ DeleteTag
    \/ Rebase
    \/ TagHead
    \/ Finish

Spec == Init /\ [][Next]_vars

\* The same program with the history of its runs kept.
SpecHist == InitHist /\ [][Next]_vars


\* ================================================================ claims
\* Names of the shape a patch tag has for the version `base`.
IsPatchTagOf(t, base) ==
    /\ StartsWith(t, base \o <<"-", "p">>)
    /\ Len(t) > Len(base) + 2
    /\ \A i \in (Len(base) + 3)..Len(t) : t[i] \in Digits

\* Names containing "-p", the ones the pattern '*-p*' selects.
HasDashP(t) == \E i \in 1..(Len(t) - 1) : t[i] = "-" /\ t[i + 1] = "p"

\* A tag at commit c whose name begins with <latest_tag>-p.
PrefixTagAt(tg, c) ==
    \E t \in DOMAIN tg : tg[t] = c /\ StartsWith(t, latest_tag \o <<"-", "p">>)

\* The local tags as the run saw them after its fetches.
TagsAfterFetch == FetchMerge(start_tags, upTags)

\* C5: when a tag at HEAD begins with <latest_tag>-p, the step that reads
\* the tags at HEAD ends the run with status 0 and touches neither the tags
\* nor HEAD nor the history, whether or not the latest upstream tag's commit
\* is HEAD itself or an ancestor of it.
C5_ShortCircuit ==
    [][(pc = "head_tags" /\ PrefixTagAt(tags, HEAD))
         => /\ pc' = "done"
            /\ status' = 0
            /\ outcome' = "up_to_date"
            /\ tags' = tags
            /\ HEAD' = HEAD
            /\ parent' = parent]_vars

\* A run short-circuited although HEAD is the latest upstream tag's commit.
C5_Witness ==
    /\ pc = "done"
    /\ outcome = "up_to_date"
    /\ HEAD = latest_tag_hash

\* C7: a run ends with status 0 exactly when it created its patch tag or
\* took the "already up to date" short-circuit, and with status 1 exactly
\* when a command whose failure is not tolerated failed or HEAD carries no
\* local patches.
C7_ExitStatus ==
    pc = "done" =>
        /\ status \in {0, 1}
        /\ status = 0 <=> outcome \in {"updated", "up_to_date"}
        /\ status = 1 <=> (cmdFailed \/ outcome = "no_local_patches")
        /\ outcome = "updated" => (new_tag \in DOMAIN tags /\ tags[new_tag] = HEAD)
        /\ outcome = "no_local_patches" => HEAD = latest_tag_hash

\* A run ended by a failed command.
C7_Witness == pc = "done" /\ cmdFailed /\ status = 1

\* C9: a command run with may_fail that exits non-zero does not end the run:
\* with an unborn HEAD the tags at HEAD are taken to be none and the run goes
\* on to read HEAD's hash; when the latest upstream tag's commit is not an
\* ancestor of HEAD the run goes on into the rebase branch.
C9_ToleratedFailure ==
    [][/\ (pc = "head_tags" /\ HEAD = 0)
            => (pc' = "rev_parse" /\ status' = "running" /\ tolerated')
       /\ (pc = "is_ancestor" /\ latest_tag_hash \notin AncEq(HEAD))
            => (pc' = "remove_list" /\ branch' = "rebase"
                /\ status' = "running" /\ tolerated')]_vars

\* A run that went through a tolerated failure and tagged HEAD.
C9_Witness == pc = "done" /\ tolerated /\ status = 0 /\ outcome = "updated"


\* The run resolved the latest upstream tag (its fetches and describe succeeded).
Resolved == pc = "done" /\ latest_tag_hash # 0

\* tg without the names containing "-p".
Unpatched(tg) == [t \in {u \in DOMAIN tg : ~HasDashP(u)} |-> tg[t]]

\* C2 as stated: a run that finds HEAD on the latest upstream tag's commit
\* exits with failure status and creates no tag.
C2_Original ==
    (Resolved /\ start_head = latest_tag_hash)
        => (status = 1 /\ tags = TagsAfterFetch)

\* C2 as amended: such a run creates no tag, deletes none and leaves HEAD;
\* it exits with status 1 ("no local patches") unless a tag at HEAD begins
\* with <latest_tag>-p, in which case it exits with status 0.
C2_HeadIsLatest ==
    (Resolved /\ start_head = latest_tag_hash)
        => /\ tags = TagsAfterFetch
           /\ HEAD = start_head
           /\ IF PrefixTagAt(tags, HEAD)
              THEN status = 0 /\ outcome = "up_to_date"
              ELSE status = 1 /\ outcome = "no_local_patches"

\* A run that exited on "no local patches".
C2_Witness == pc = "done" /\ outcome = "no_local_patches" /\ HEAD = latest_tag_hash

\* Largest N among the tags of tg named <base>-p<N>, 0 if there is none.
HighestOfForm(tg, base) ==
    SetMax({0} \cup {PatchSuffix(t) : t \in {u \in DOMAIN tg : IsPatchTagOf(u, base)}})

\* C3: when the latest upstream tag's commit is an ancestor of HEAD, the run
\* creates exactly <tag>-p<N+1> at HEAD, N the highest patch number among the
\* tags <tag>-p<N>, does not move HEAD and deletes no tag.  (Read in the
\* claim's favour: the commit is not HEAD itself and no tag at HEAD begins
\* with <tag>-p, so the run gets as far as the ancestry test.)
C3_AncestorBranch ==
    (/\ Resolved
     /\ latest_tag_hash \in AncEq(start_head) \ {start_head}
     /\ ~PrefixTagAt(TagsAfterFetch, start_head))
        => /\ outcome = "updated"
           /\ HEAD = start_head
           /\ tags = (PatchTagName(latest_tag, HighestOfForm(TagsAfterFetch, latest_tag) + 1)
                        :> HEAD) @@ TagsAfterFetch

\* C4 as stated: when the latest upstream tag's commit is not an ancestor of
\* HEAD, the run removes every tag matching *-p*, rebases onto that commit
\* and creates <tag>-p1 at the rebased HEAD.  (Read in the claim's favour:
\* HEAD exists and no command of the run fails.)
C4_Original ==
    (Resolved /\ start_head # 0 /\ ~cmdFailed /\ latest_tag_hash \notin AncEq(start_head))
        => /\ outcome = "updated"
           /\ latest_tag_hash \in AncEq(HEAD)
           /\ tags = (PatchTagName(latest_tag, 1) :> HEAD) @@ Unpatched(TagsAfterFetch)

\* C4 as amended: when HEAD exists, the latest upstream tag's commit is not
\* an ancestor of it and no tag at HEAD begins with <tag>-p, the run takes
\* the rebase branch: every tag matching *-p* is gone before the rebase
\* starts, HEAD is not moved before that, the tag <tag>-p1 is created only
\* after the rebase, at the rebased HEAD (which has the upstream tag's commit
\* as an ancestor); when the rebase fails the run exits 1 with those tags
\* removed and no tag created.
C4_RebaseBranch ==
    /\ pc \in {"remove_list", "remove_one", "rebase"} => HEAD = start_head
    /\ pc = "rebase" => \A t \in DOMAIN tags : ~HasDashP(t)
    /\ (pc = "tag_head" /\ branch = "rebase")
        => /\ \A t \in DOMAIN tags : ~HasDashP(t)
           /\ latest_tag_hash \in AncEq(HEAD)
           /\ new_tag = PatchTagName(latest_tag, 1)
    /\ (/\ Resolved
        /\ start_head # 0
        /\ latest_tag_hash \notin AncEq(start_head)
        /\ ~PrefixTagAt(TagsAfterFetch, start_head))
        => /\ branch = "rebase"
           /\ IF cmdFailed
              THEN status = 1 /\ tags = Unpatched(TagsAfterFetch)
              ELSE /\ status = 0
                   /\ outcome = "updated"
                   /\ latest_tag_hash \in AncEq(HEAD)
                   /\ Cardinality(AncEq(HEAD)) = Cardinality(AncEq(latest_tag_hash))
                        + Cardinality(AncEq(start_head) \ AncEq(baseMain))
                   /\ tags = (PatchTagName(latest_tag, 1) :> HEAD)
                                @@ Unpatched(TagsAfterFetch)

\* A run that removed an earlier patch tag, rebased and tagged <tag>-p1.
C4_Witness ==
    /\ pc = "done"
    /\ branch = "rebase"
    /\ outcome = "updated"
    /\ \E t \in DOMAIN start_tags : HasPatchSuffix(t)
    /\ new_tag = PatchTagName(latest_tag, 1)
    /\ tags[new_tag] = HEAD


\* C1: a run that follows a run directly, with no upstream change and no
\* local change in between, reports "already up-to-date", and apart from the
\* tags its fetch brings it creates no tag, deletes none and leaves HEAD.
\* (Read in the claim's favour: the first run exited 0 and no command of the
\* second fails.)
C1_Idempotence ==
    (pc = "done" /\ prev = <<0>> /\ ~cmdFailed)
        => /\ outcome = "up_to_date"
           /\ tags = TagsAfterFetch
           /\ HEAD = start_head

\* C6: where the run uses it, get_highest_patch_suffix(latest_tag) is the
\* largest N among the local tags named <latest_tag>-p<N>, 0 if there is
\* none: the name the ancestor branch builds carries that number plus one.
C6_HighestPatchSuffix ==
    (pc = "tag_head" /\ branch = "ancestor")
        => new_tag = PatchTagName(latest_tag, HighestOfForm(tags, latest_tag) + 1)

\* C8: a patch tag created for a version carries a positive number greater
\* than that of the patch tag created last before it for the same version,
\* whatever runs, local commits, checkouts and upstream releases lie between.
C8_PatchNumberIncreases ==
    [][(pc = "tag_head" /\ tags' # tags)
          => /\ HasPatchSuffix(new_tag)
             /\ PatchSuffix(new_tag) >= 1
             /\ (created # <<>> /\ created[1] = latest_tag)
                  => PatchSuffix(new_tag) > PatchSuffix(created[2])]_vars

\* C10 as stated: a step whose command fails without being tolerated ends
\* the run at once with status 1 and leaves the repository as the steps
\* before it made it.
C10_Original ==
    [][(~cmdFailed /\ cmdFailed')
          => (pc' = "done" /\ status' = 1 /\ repoVars' = repoVars)]_vars

\* C10 as amended: such a step ends the run at once with status 1; no tag,
\* remote or remote-tracking branch is changed by it, and HEAD and the commit
\* graph are changed by it only when the failing command is the rebase (a
\* rebase that stops part way leaves HEAD on the commits it replayed); the
\* failed rebase leaves no tag matching *-p* and no new tag; once the run
\* has ended nothing more is done to the repository.
C10_FailFast ==
    [][/\ (~cmdFailed /\ cmdFailed')
            => /\ pc' = "done"
               /\ status' = 1
               /\ <<tags, baseMain, remoteUrl>>' = <<tags, baseMain, remoteUrl>>
               /\ pc # "rebase" => <<HEAD, parent>>' = <<HEAD, parent>>
               /\ pc = "rebase" =>
                    /\ \A t \in DOMAIN tags' : ~HasDashP(t)
                    /\ tags' = Unpatched(TagsAfterFetch)
       /\ pc = "done" => repoVars' = repoVars]_vars

\* A run whose rebase failed after it had removed a patch tag.
C10_Witness ==
    /\ pc = "done"
    /\ cmdFailed
    /\ status = 1
    /\ branch = "rebase"
    /\ latest_tag_hash \notin AncEq(HEAD)
    /\ \E t \in DOMAIN start_tags : HasPatchSuffix(t)
    /\ \A t \in DOMAIN tags : ~HasDashP(t)

\* C11: when no tag is reachable from base/main, `git describe` fails and the
\* run ends there with status 1; up to then the run has created no tag beyond
\* those its fetch brought, deleted none and has not moved HEAD.
C11_NoUpstreamTag ==
    [][(pc = "describe" /\ NearestTagged(tags, baseMain) = 0)
          => /\ pc' = "done"
             /\ status' = 1
             /\ outcome' = "git_error"
             /\ tags' = TagsAfterFetch
             /\ HEAD' = start_head
             /\ parent' = parent]_vars

\* A run that fetched an upstream without tags and died at describe.
C11_Witness ==
    /\ pc = "done"
    /\ status = 1
    /\ cmdFailed
    /\ baseMain = upMain
    /\ upTags = NoTags
    /\ latest_tag = NoTag
    /\ NearestTagged(tags, baseMain) = 0


\* C12: a run that created its patch tag leaves it on a commit that has the
\* latest upstream tag's commit as a proper ancestor.
C12_TaggedOnTopOfUpstream ==
    (pc = "done" /\ outcome = "updated")
        => /\ tags[new_tag] = HEAD
           /\ latest_tag_hash \in AncEq(HEAD) \ {HEAD}


\* C13: when a run reaches tag_head, HEAD exists and the name it is about to
\* create is not the name of a local tag, so `git tag` does not fail on an
\* existing name: the step creates the tag at HEAD and the run exits 0.
C13_TagNameFree ==
    [][pc = "tag_head"
          => /\ new_tag \notin DOMAIN tags
             /\ pc' = "done"
             /\ status' = 0
             /\ tags' = (new_tag :> HEAD) @@ tags]_vars

\* The rebase branch about to create a name that existed when the run began.
C13_Witness ==
    /\ pc = "tag_head"
    /\ branch = "rebase"
    /\ new_tag \in DOMAIN start_tags


\* C14: when a run has exited with status 0, some tag pointing at HEAD has a
\* name that begins with <latest_tag>-p, latest_tag being the tag the run
\* resolved.
C14_SuccessLeavesPrefixTag ==
    (pc = "done" /\ status = 0)
        => /\ latest_tag # NoTag
           /\ HEAD # 0
           /\ \E t \in TagsAt(HEAD) : StartsWith(t, PatchPrefix(latest_tag))

\* A run that rebased, tagged the new HEAD and exited 0.
C14_Witness ==
    /\ pc = "done"
    /\ status = 0
    /\ outcome = "updated"
    /\ branch = "rebase"
    /\ HEAD # start_head
    /\ new_tag \in TagsAt(HEAD)


\* C15: a tag that a step of a run deletes is deleted by the bulk removal of
\* the rebase branch and is a patch tag (its name ends in -p<N>), never a
\* release tag of upstream.
C15_RemovesOnlyPatchTags ==
    [][\A t \in DOMAIN tags \ DOMAIN tags' :
          /\ pc = "remove_one"
          /\ branch = "rebase"
          /\ HasPatchSuffix(t)
          /\ t \notin DOMAIN upTags]_vars


\* C16: once setup_remote_if_missing has run, the remote 'base' exists, so
\* every fetch finds it; the remote is added, with the fixed URL, only by
\* that step and only when it was absent, and the URL of an existing remote
\* is never changed by any step of any run.
C16_EnsureRemote ==
    [][/\ pc' \in {"fetch", "fetch_tags"} => remoteUrl' # NoRemote
       /\ remoteUrl # NoRemote => remoteUrl' = remoteUrl
       /\ remoteUrl' # remoteUrl
            => /\ pc = "idle"
               /\ pc' = "fetch"
               /\ remoteUrl' = UPSTREAM_REMOTE_URL]_vars

\* A run fetched through a remote 'base' that had another URL and kept it.
C16_Witness ==
    /\ pc = "done"
    /\ remoteUrl = OtherUrl
    /\ baseMain = upMain
    /\ outcome = "updated"

=============================================================================
